---- MODULE Spec2Model ----
(***************************************************************************)
(* Model of the OCR task manager (client/src/ocr_task_manager.py): the     *)
(* task table, the set of locked files, the worker pool and the monitor    *)
(* threads.  Every "with self.lock" block of the source is one atomic      *)
(* step; the code between two such blocks can interleave with the steps of *)
(* other threads.  Specification Spec.                                     *)
(*                                                                         *)
(* Model of the incremental scanner (src/cache_manager.py): the scanned    *)
(* directory, the file cache in memory and on disk, the version table of   *)
(* the database and the passes of scan_incremental, which is single-       *)
(* threaded and taken as one step.  Specification ScanSpec.                *)
(*                                                                         *)
(* Smaller models of parts of the two: the file cache with its cache file  *)
(* (CacheSpec), the version table (LedgerSpec), the scanner with the       *)
(* readers of its results (QuerySpec), and the threads of the task manager *)
(* at the grain of their operations on self.lock (MutexSpec, with          *)
(* fairness).                                                              *)
(***************************************************************************)
EXTENDS Integers, FiniteSets, Sequences, TLC

\* ---- bounds -------------------------------------------------------------
MaxCalls == 2          \* number of submit_task calls explored
MaxTime == 2           \* largest value of the millisecond clock
HashMod == 2           \* stands for the "% 10000" of the task id
MaxEdits == 1          \* number of changes made to the scanned directory
MaxPasses == 3         \* number of calls of scan_incremental
\* ---- program constants --------------------------------------------------
\* One tick of the clock is any advance of time.time() that changes its
\* millisecond value; the wait of future.result(timeout=3600) runs out after
\* TimeoutTicks of them at the earliest.
TimeoutTicks == 1
NoTime == 0            \* None in start_time / end_time

\* The arguments of submit_task.  "pdf" is a supported file type ("ppt" and
\* "office" take the same way through the worker), "txt" is not.
Paths == {"p1", "p2"}
FileTypes == {"pdf", "txt"}
Calls == 1..MaxCalls
Times == 1..MaxTime
TaskIds == Times \X (0..(HashMod - 1))
NoId == <<0, 0>>
AgeInputs == {0, 1}     \* max_age of cleanup_completed_tasks, in ticks

VARIABLES
    now,        \* time.time() * 1000, truncated
    hashOf,     \* hash(file_path) % 10000 of each path, fixed per process
    tasks,      \* self.tasks: task id -> task object (0: no entry)
    objs,       \* the OCRTask objects, one per submit call that built one
    locked,     \* self.locked_files
    shutdown,   \* self._shutdown
    executor,   \* self.executor: "none", "up", or "shut" (shutdown called)
    stopPc,     \* position of the thread inside stop()
    calls,      \* position and arguments of each submit_task call
    future,     \* the future of the job each call handed to the pool
    mon         \* the monitor thread of each call

VARIABLES
    disk,       \* the files under the scanned path, with what os.stat gives
    cache,      \* FileCache.cache_data['files'], in insertion order
    cache_meta, \* the type of cache_data['files'] and cache_data['version']
    cache_file, \* the content of data/file_cache.pkl
    ledger,     \* the rows of table file_versions, by file_path
    connection, \* db_manager.connection is usable
    result,     \* what the last call of scan_incremental gave its caller
    passes,     \* number of calls of scan_incremental so far
    edits,      \* number of changes made to the directory so far
    lastPass    \* outcome of the last pass, "none" once the directory
                \* has changed after it

VARIABLES
    mutex,      \* self.lock: the thread that owns it and how often it has
                \* acquired it
    thread      \* the operation each thread is in and its position in it

orchVars == <<now, hashOf, tasks, objs, locked, shutdown, executor, stopPc,
              calls, future, mon>>

scanVars == <<disk, cache, cache_meta, cache_file, ledger, connection,
              result, passes, edits, lastPass>>

mutexVars == <<mutex, thread>>

vars == <<orchVars, scanVars, mutexVars>>

\* ---- TaskStatus (lines 166-171) ----------------------------------------
PENDING == "pending"
RUNNING == "running"
COMPLETED == "completed"
FAILED == "failed"
CANCELLED == "cancelled"
TaskStatus == {PENDING, RUNNING, COMPLETED, FAILED, CANCELLED}
Terminal == {COMPLETED, FAILED, CANCELLED}

\* An object slot no OCRTask has been built in yet.
NoTask ==
    [task_id |-> NoId, file_path |-> "", file_type |-> "", status |-> "none",
     progress |-> 0, message |-> "", result |-> "none", error |-> "none",
     start_time |-> NoTime, end_time |-> NoTime]

\* OCRTask(...) as built by submit_task
OCRTask(tid, p, ft) ==
    [task_id |-> tid, file_path |-> p, file_type |-> ft, status |-> PENDING,
     progress |-> 0, message |-> "waiting", result |-> "none",
     error |-> "none", start_time |-> NoTime, end_time |-> NoTime]

\* task_id = f"{int(time.time() * 1000)}_{hash(file_path) % 10000}"
MakeTaskId(t, p) == <<t, hashOf[p]>>

\* ---- the job body -------------------------------------------------------
\* _run_ocr_task_worker: the outcome of the future for a file type and the
\* answer of the remote service ("success" or anything else / an exception).
RunWorker(ft, remote) ==
    IF ft \in {"pdf", "ppt", "office"}
    THEN IF remote = "success" THEN "ret_ok" ELSE "ret_fail"
    ELSE "raised"

\* ---- lock set -----------------------------------------------------------
\* is_file_locked answering False for every path
is_file_locked_never(p) == FALSE
is_file_locked(p) == p \in locked
lock_file(L, p) == L \cup {p}
unlock_file(L, p) == L \ {p}

\* ---- monitor commit -----------------------------------------------------
\* The body of "with self.lock" in the try branch of _monitor_task, for the
\* value future.result returned: a dict with success true ("ret_ok"), a dict
\* with success false ("ret_fail"), or anything else (the old format).
CommitResult(task, fut, t) ==
    IF fut = "ret_ok"
    THEN [task EXCEPT !.status = COMPLETED, !.progress = 1,
                      !.message = "done", !.result = "payload",
                      !.end_time = t]
    ELSE IF fut = "ret_fail"
    THEN [task EXCEPT !.status = FAILED, !.message = "failed",
                      !.error = "error", !.end_time = t]
    ELSE [task EXCEPT !.status = COMPLETED, !.progress = 1,
                      !.message = "done", !.result = fut,
                      !.end_time = t]

\* str(e) of the exceptions future.result raises: the ValueError of the
\* worker carries a text, the TimeoutError of the wait carries none.
UnsupportedType == "unsupported file type"
TimeoutText == ""

\* The body of "with self.lock" in the except branch of _monitor_task.
CommitException(task, e, t) ==
    [task EXCEPT !.status = FAILED, !.message = "exception",
                 !.error = e, !.end_time = t]

\* ---- self.lock and the threads that take it ------------------------------
\* The client threads that call the manager, and one monitor thread per
\* job (lines 286-291).
Clients == {1, 2}
ClientThreads == {"client"} \X Clients
MonitorThreads == {"monitor"} \X Calls
Threads == ClientThreads \cup MonitorThreads
NoThread == <<"none", 0>>

\* self.lock = threading.RLock(), line 197, not held.
Unlocked == [owner |-> NoThread, depth |-> 0]

\* What each operation does with self.lock, in the order of its code.
\* "acquire" and "release" are the entry and the exit of a "with self.lock"
\* block, "result" is future.result(timeout=3600), "dispatch" is
\* executor.submit with the start of the monitor thread, "callback" is
\* the call of self.progress_callback.

\* submit_task with _start_task: is_file_locked (lines 222-223), the block
\* of lines 248-258 with lock_file inside it (lines 227-231), the block of
\* lines 272-275, then lines 278-291 outside every block.
submit_task_locking ==
    <<"acquire", "release",
      "acquire", "acquire", "release", "release",
      "acquire", "release",
      "dispatch">>

\* cancel_task: the block of lines 374-382 with unlock_file inside it
\* (lines 235-236).
cancel_task_locking == <<"acquire", "acquire", "release", "release">>

\* get_task_status, get_running_tasks, get_statistics and
\* cleanup_completed_tasks: one block each (lines 358-359, 368-370,
\* 406-420, 390-402).
query_locking == <<"acquire", "release">>

\* A monitor that takes the lock before it waits for the outcome.
monitor_task_locking_around_wait ==
    <<"acquire", "result", "acquire", "release", "release", "callback">>

\* _monitor_task: the wait of line 298 outside every block, then the block
\* of lines 301-331 or of lines 335-346 with unlock_file inside it, then
\* the callback of lines 349-353.
monitor_task_locking ==
    <<"result", "acquire", "acquire", "release", "release", "callback">>

Ops == {"submit_task", "cancel_task", "get_task_status",
        "get_running_tasks", "get_statistics", "cleanup_completed_tasks"}

Program(op) ==
    IF op = "submit_task" THEN submit_task_locking
    ELSE IF op = "cancel_task" THEN cancel_task_locking
    ELSE IF op = "monitor_task" THEN monitor_task_locking
    ELSE IF op \in Ops THEN query_locking
    ELSE <<>>

\* A thread that is in no operation.
Idle == [op |-> "none", at |-> 0]

\* ---- the scanned directory, the file cache and the version table --------
Files == {"f1", "f2"}

\* os.path.splitext(file_path)[1].lower() (line 319): f1 is a PDF file, f2
\* a file of another kind.
Extension(p) == IF p = "f1" THEN ".pdf" ELSE ".tmp"

\* SUPPORTED_EXTENSIONS of config.py, which cache_manager.py does not
\* import (line 13).
SUPPORTED_EXTENSIONS ==
    {".pdf", ".doc", ".docx", ".xls", ".xlsx", ".ppt", ".pptx"}

\* Time stamps of files and the years they fall in; the scanner takes
\* current_year from the clock when it is constructed (line 221).
Stamps == {1, 2}
YearOf(t) == 2024 + t
current_year == 2026
NoDate == 0            \* a date that file_info.get does not find

\* What os.walk and os.stat give for a path.  Absent: the path is not in
\* the directory.  Unreadable: os.walk lists the path and os.stat raises.
Sizes == {1, 2}
Stats == [kind : {"file"}, st_mtime : Stamps, st_size : Sizes,
          st_ctime : Stamps, st_atime : Stamps]
Absent ==
    [kind |-> "absent", st_mtime |-> 0, st_size |-> 0, st_ctime |-> 0,
     st_atime |-> 0]
Unreadable ==
    [kind |-> "unreadable", st_mtime |-> 0, st_size |-> 0, st_ctime |-> 0,
     st_atime |-> 0]
FileStates == Stats \cup {Absent, Unreadable}

\* hashlib.md5 of "mtime_size_path", taken as injective; EmptyHash is the
\* "" that get_file_hash returns when os.stat fails.
EmptyHash == <<0, 0, "">>
Hashes == (Stamps \X Sizes \X Files) \cup {EmptyHash}

\* The {} that _get_file_info returns when os.stat fails, read through
\* .get as _is_current_year_file and is_file_changed read it.
EmptyInfo ==
    [file_path |-> "", file_size_mb |-> 0, creation_date |-> NoDate,
     modification_date |-> NoDate, access_date |-> NoDate, status |-> "",
     hash |-> EmptyHash]

\* A file without a row in file_versions.
NoRow == [file_hash |-> EmptyHash, status |-> "none"]

\* What the caller of scan_incremental holds before the first pass.
NoResult ==
    [outcome |-> "none", new_files |-> {}, updated_files |-> {},
     unchanged_files |-> {}, deleted_files |-> {}]

\* The paths that are keys of the dictionary c.
CachedPaths(c) == {c[i].file_path : i \in DOMAIN c}

\* c[p] for a key p of the dictionary c.
Lookup(c, p) == c[CHOOSE i \in DOMAIN c : c[i].file_path = p]

\* cache_data as __init__ builds it (lines 22-26): 'files' is a dictionary
\* and 'version' is '1.0'.
DefaultMeta == [files_kind |-> "dict", version |-> "1.0"]

\* What data/file_cache.pkl can hold.  "missing": there is no such file.
\* "garbage": pickle.load raises.  "pickle": pickle.load returns an object;
\* files_kind tells what obj['files'] is: "none" if the object has no such
\* item or the item has no len(), "list" if it is a sequence that is not
\* a dictionary, "dict" if it is a dictionary.
MissingFile ==
    [kind |-> "missing", files_kind |-> "none", version |-> "", files |-> <<>>]
GarbageFile ==
    [kind |-> "garbage", files_kind |-> "none", version |-> "", files |-> <<>>]

\* pickle.dump(self.cache_data, f), line 51, for the table c.
Pickled(c, meta) ==
    [kind |-> "pickle", files_kind |-> meta.files_kind,
     version |-> meta.version, files |-> c]

\* FileCache.__init__ with no data/file_cache.pkl (lines 17-27), the
\* version table empty, no pass made yet.
ScannerConstructed ==
    /\ cache = <<>>
    /\ cache_meta = DefaultMeta
    /\ cache_file = MissingFile
    /\ ledger = [p \in Files |-> NoRow]
    /\ result = NoResult
    /\ passes = 0
    /\ edits = 0
    /\ lastPass = "none"

TypeOK ==
    /\ now \in Times
    /\ hashOf \in [Paths -> 0..(HashMod - 1)]
    /\ tasks \in [TaskIds -> 0..MaxCalls]
    /\ locked \subseteq Paths
    /\ shutdown \in BOOLEAN
    /\ executor \in {"none", "up", "shut"}
    /\ stopPc \in {"idle", "draining"}
    /\ \A c \in Calls :
         /\ objs[c].status \in TaskStatus \cup {"none"}
         /\ calls[c].pc \in {"none", "checked", "created", "started",
                             "returned", "ValueError",
                             "RuntimeError", "raised"}
         /\ future[c] \in {"none", "inflight", "ret_ok", "ret_fail", "raised"}
         /\ mon[c].pc \in {"none", "waiting", "done"}

\* OCRTaskManager.__init__.  The hash values are interchangeable, so the
\* first path is given hash 0; the other paths' hashes may or may not
\* coincide with it.
ManagerConstructed ==
    /\ now = 1
    /\ hashOf \in {h \in [Paths -> 0..(HashMod - 1)] : h["p1"] = 0}
    /\ tasks = [i \in TaskIds |-> 0]
    /\ objs = [c \in Calls |-> NoTask]
    /\ locked = {}
    /\ shutdown = FALSE
    /\ executor = "none"
    /\ stopPc = "idle"
    /\ calls = [c \in Calls |-> [pc |-> "none", path |-> "", ftype |-> ""]]
    /\ future = [c \in Calls |-> "none"]
    /\ mon = [c \in Calls |-> [pc |-> "none", since |-> NoTime]]
    /\ mutex = Unlocked
    /\ thread = [t \in Threads |-> Idle]

\* The task manager is constructed; the scanner is not used.
Init ==
    /\ ManagerConstructed
    /\ ScannerConstructed
    /\ disk = [p \in Files |-> Absent]
    /\ connection = TRUE

\* The clock advances.
Tick ==
    /\ now < MaxTime
    /\ now' = now + 1
    /\ UNCHANGED <<hashOf, tasks, objs, locked, shutdown, executor, stopPc,
                   calls, future, mon>>
    /\ UNCHANGED <<scanVars, mutexVars>>

\* ---- submit_task --------------------------------------------------------
\* Lines 240-244: the two checks.  is_file_locked takes the lock only for
\* the membership test.
SubmitCheck(c, p, ft) ==
    /\ calls[c].pc = "none"
    /\ \A d \in Calls : d < c => calls[d].pc # "none"
    /\ calls' = [calls EXCEPT ![c] =
                   [pc |-> IF shutdown THEN "RuntimeError"
                           ELSE IF is_file_locked(p) THEN "ValueError"
                           ELSE "checked",
                    path |-> p, ftype |-> ft]]
    /\ UNCHANGED <<now, hashOf, tasks, objs, locked, shutdown, executor,
                   stopPc, future, mon>>
    /\ UNCHANGED <<scanVars, mutexVars>>

\* Lines 246-258: the id is computed, then under the lock the task is put
\* into the table and the file is locked.
SubmitCreate(c) ==
    /\ calls[c].pc = "checked"
    /\ LET tid == MakeTaskId(now, calls[c].path) IN
         /\ objs' = [objs EXCEPT ![c] =
                        OCRTask(tid, calls[c].path, calls[c].ftype)]
         /\ tasks' = [tasks EXCEPT ![tid] = c]
    /\ locked' = lock_file(locked, calls[c].path)
    /\ calls' = [calls EXCEPT ![c].pc = "created"]
    /\ UNCHANGED <<now, hashOf, shutdown, executor, stopPc, future, mon>>
    /\ UNCHANGED <<scanVars, mutexVars>>

\* _start_task, lines 268-275: the pool is created if there is none, then
\* under the lock the task object is set to running.
SubmitStart(c) ==
    /\ calls[c].pc = "created"
    /\ executor' = IF executor = "none" THEN "up" ELSE executor
    /\ objs' = [objs EXCEPT ![c].status = RUNNING,
                            ![c].start_time = now,
                            ![c].message = "processing"]
    /\ calls' = [calls EXCEPT ![c].pc = "started"]
    /\ UNCHANGED <<now, hashOf, tasks, locked, shutdown, stopPc, future, mon>>
    /\ UNCHANGED <<scanVars, mutexVars>>

\* _start_task, lines 278-291: executor.submit, which raises when the pool
\* has been shut down or self.executor has been reset to None meanwhile,
\* then the monitor thread is started and submit_task returns.
SubmitDispatch(c) ==
    /\ calls[c].pc = "started"
    /\ IF executor = "up"
       THEN /\ future' = [future EXCEPT ![c] = "inflight"]
            /\ mon' = [mon EXCEPT ![c] = [pc |-> "waiting", since |-> now]]
            /\ calls' = [calls EXCEPT ![c].pc = "returned"]
       ELSE /\ calls' = [calls EXCEPT ![c].pc = "raised"]
            /\ UNCHANGED <<future, mon>>
    /\ UNCHANGED <<now, hashOf, tasks, objs, locked, shutdown, executor,
                   stopPc>>
    /\ UNCHANGED <<scanVars, mutexVars>>

\* ---- the worker pool ----------------------------------------------------
\* A job body finishes: the future gets its outcome.
JobFinish(c, remote) ==
    /\ future[c] = "inflight"
    /\ future' = [future EXCEPT ![c] = RunWorker(calls[c].ftype, remote)]
    /\ UNCHANGED <<now, hashOf, tasks, objs, locked, shutdown, executor,
                   stopPc, calls, mon>>
    /\ UNCHANGED <<scanVars, mutexVars>>

\* ---- _monitor_task ------------------------------------------------------
\* What future.result(timeout=3600) gives the monitor and the branch that
\* handles it: a returned value goes to the try branch, the exception of
\* the job or the TimeoutError of a job still in flight to the except branch.
MonitorOutcome(task, fut, t) ==
    IF fut = "raised" THEN CommitException(task, UnsupportedType, t)
    ELSE IF fut = "inflight" THEN CommitException(task, TimeoutText, t)
    ELSE CommitResult(task, fut, t)

\* The table and the lock set after the monitor of task id tid has handled
\* an outcome: the task found under the id is updated and its file is
\* unlocked; nothing happens if the id is not in the table.
MonitorEffect(tid, fut) ==
    IF tasks[tid] # 0
    THEN /\ objs' = [objs EXCEPT ![tasks[tid]] = MonitorOutcome(@, fut, now)]
         /\ locked' = unlock_file(locked, objs[tasks[tid]].file_path)
    ELSE UNCHANGED <<objs, locked>>

\* future.result returned (lines 298-331) or raised the job's exception
\* (lines 333-346).
MonitorCommit(c) ==
    /\ mon[c].pc = "waiting"
    /\ future[c] \in {"ret_ok", "ret_fail", "raised"}
    /\ MonitorEffect(objs[c].task_id, future[c])
    /\ mon' = [mon EXCEPT ![c] = [pc |-> "done", since |-> NoTime]]
    /\ UNCHANGED <<now, hashOf, tasks, shutdown, executor, stopPc, calls,
                   future>>
    /\ UNCHANGED <<scanVars, mutexVars>>

\* future.result(timeout=3600) raised TimeoutError (lines 333-346); the job
\* itself keeps running in the pool.
MonitorTimeout(c) ==
    /\ mon[c].pc = "waiting"
    /\ future[c] = "inflight"
    /\ now - mon[c].since >= TimeoutTicks
    /\ MonitorEffect(objs[c].task_id, future[c])
    /\ mon' = [mon EXCEPT ![c] = [pc |-> "done", since |-> NoTime]]
    /\ UNCHANGED <<now, hashOf, tasks, shutdown, executor, stopPc, calls,
                   future>>
    /\ UNCHANGED <<scanVars, mutexVars>>

\* ---- cancel_task --------------------------------------------------------
\* A cancel that is effective on running tasks only.
CancelEffective_RunningOnly(tid) ==
    /\ tasks[tid] # 0
    /\ objs[tasks[tid]].status = RUNNING

\* Lines 374-376, the condition under which cancel_task changes the task
\* and returns True; it returns False otherwise.
CancelEffective(tid) ==
    /\ tasks[tid] # 0
    /\ objs[tasks[tid]].status \in {PENDING, RUNNING}

cancel_task(tid) ==
    /\ IF CancelEffective(tid)
       THEN /\ objs' = [objs EXCEPT ![tasks[tid]].status = CANCELLED,
                                    ![tasks[tid]].message = "cancelled"]
            /\ locked' = unlock_file(locked, objs[tasks[tid]].file_path)
       ELSE UNCHANGED <<objs, locked>>
    /\ UNCHANGED <<now, hashOf, tasks, shutdown, executor, stopPc, calls,
                   future, mon>>
    /\ UNCHANGED <<scanVars, mutexVars>>

\* ---- cleanup_completed_tasks -------------------------------------------
\* A sweep that takes every ended task, whatever its age.
ToRemove_AnyAge(age) ==
    {tid \in TaskIds :
        /\ tasks[tid] # 0
        /\ objs[tasks[tid]].status \in {COMPLETED, FAILED, CANCELLED}}

\* Lines 391-396, the ids collected in to_remove.
ToRemove(age) ==
    {tid \in TaskIds :
        /\ tasks[tid] # 0
        /\ objs[tasks[tid]].status \in {COMPLETED, FAILED, CANCELLED}
        /\ objs[tasks[tid]].end_time # NoTime
        /\ now - objs[tasks[tid]].end_time > age}

cleanup_completed_tasks(age) ==
    /\ tasks' = [tid \in TaskIds |->
                    IF tid \in ToRemove(age) THEN 0 ELSE tasks[tid]]
    /\ UNCHANGED <<now, hashOf, objs, locked, shutdown, executor, stopPc,
                   calls, future, mon>>
    /\ UNCHANGED <<scanVars, mutexVars>>

\* ---- get_statistics -----------------------------------------------------
\* The number of entries of self.tasks whose task has status st: the
\* counter the loop of lines 416-417 builds for st.
CountStatus(st) ==
    Cardinality({tid \in TaskIds :
                    tasks[tid] # 0 /\ objs[tasks[tid]].status = st})

\* Statistics that count every task object ever created, swept or not.
get_statistics_all_objects ==
    [total_tasks  |-> Cardinality({c \in Calls : objs[c] # NoTask}),
     pending      |-> Cardinality({c \in Calls : objs[c].status = PENDING}),
     running      |-> Cardinality({c \in Calls : objs[c].status = RUNNING}),
     completed    |-> Cardinality({c \in Calls : objs[c].status = COMPLETED}),
     failed       |-> Cardinality({c \in Calls : objs[c].status = FAILED}),
     cancelled    |-> Cardinality({c \in Calls : objs[c].status = CANCELLED}),
     locked_files |-> Cardinality(locked)]

\* Lines 404-420: the whole body runs under self.lock, so the dictionary it
\* returns is a function of one state.
get_statistics ==
    [total_tasks  |-> Cardinality({tid \in TaskIds : tasks[tid] # 0}),
     pending      |-> CountStatus(PENDING),
     running      |-> CountStatus(RUNNING),
     completed    |-> CountStatus(COMPLETED),
     failed       |-> CountStatus(FAILED),
     cancelled    |-> CountStatus(CANCELLED),
     locked_files |-> Cardinality(locked)]

\* ---- start / stop -------------------------------------------------------
\* A start that also clears the shutdown flag.
start_reopening ==
    /\ executor = "none"
    /\ executor' = "up"
    /\ shutdown' = FALSE
    /\ UNCHANGED <<now, hashOf, tasks, objs, locked, stopPc,
                   calls, future, mon>>
    /\ UNCHANGED <<scanVars, mutexVars>>

\* start, lines 206-210: the pool is created if there is none.
start ==
    /\ executor = "none"
    /\ executor' = "up"
    /\ UNCHANGED <<now, hashOf, tasks, objs, locked, shutdown, stopPc,
                   calls, future, mon>>
    /\ UNCHANGED <<scanVars, mutexVars>>

\* stop, lines 214-216: the flag is set and, if there is a pool, shutdown
\* is called on it.
StopBegin ==
    /\ stopPc = "idle"
    /\ shutdown' = TRUE
    /\ IF executor = "up"
       THEN executor' = "shut" /\ stopPc' = "draining"
       ELSE UNCHANGED <<executor, stopPc>>
    /\ UNCHANGED <<now, hashOf, tasks, objs, locked, calls, future, mon>>
    /\ UNCHANGED <<scanVars, mutexVars>>

\* shutdown that does not wait for the jobs of the pool.
PoolDrained_NoWait == TRUE

\* What shutdown(wait=True) waits for (line 216): no job handed to the pool
\* is queued or executing any more.
PoolDrained == \A c \in Calls : future[c] # "inflight"

\* stop, lines 216-218: shutdown(wait=True) returns once no job is left in
\* the pool, then self.executor is reset.
StopEnd ==
    /\ stopPc = "draining"
    /\ PoolDrained
    /\ executor' = "none"
    /\ stopPc' = "idle"
    /\ UNCHANGED <<now, hashOf, tasks, objs, locked, shutdown, calls, future,
                   mon>>
    /\ UNCHANGED <<scanVars, mutexVars>>

Next ==
    \/ Tick
    \/ \E c \in Calls, p \in Paths, ft \in FileTypes : SubmitCheck(c, p, ft)
    \/ \E c \in Calls : SubmitCreate(c)
    \/ \E c \in Calls : SubmitStart(c)
    \/ \E c \in Calls : SubmitDispatch(c)
    \/ \E c \in Calls, r \in {"success", "failure"} : JobFinish(c, r)
    \/ \E c \in Calls : MonitorCommit(c)
    \/ \E c \in Calls : MonitorTimeout(c)
    \/ \E tid \in TaskIds : cancel_task(tid)
    \/ \E age \in AgeInputs : cleanup_completed_tasks(age)
    \/ start
    \/ StopBegin
    \/ StopEnd

Spec == Init /\ [][Next]_vars

\* ==== the incremental scanner (src/cache_manager.py) =====================

\* ---- FileCache ----------------------------------------------------------
\* get_file_hash, lines 56-64.
get_file_hash(p) ==
    IF disk[p].kind = "file"
    THEN <<disk[p].st_mtime, disk[p].st_size, p>>
    ELSE EmptyHash

\* self.cache_data['files'].get(file_path, {}).get('hash', ''), line 69.
CachedHash(c, p) ==
    IF p \in CachedPaths(c) THEN Lookup(c, p).hash ELSE EmptyHash

\* is_file_changed, lines 66-70, on the dictionary c.
is_file_changed(c, p) == get_file_hash(p) # CachedHash(c, p)

\* update_file_cache, lines 72-82: the entry gets the current hash and is
\* stored under its path; a key already in the dictionary keeps its place.
update_file_cache(c, p, info) ==
    LET safe_info == [info EXCEPT !.hash = get_file_hash(p)] IN
        IF p \in CachedPaths(c)
        THEN [i \in DOMAIN c |->
                 IF c[i].file_path = p THEN safe_info ELSE c[i]]
        ELSE Append(c, safe_info)

\* remove_file_cache, lines 84-87.
remove_file_cache(c, p) ==
    LET Keep(e) == e.file_path # p IN SelectSeq(c, Keep)

\* ---- IncrementalScanner -------------------------------------------------
\* _get_current_files, lines 291-301: every file os.walk lists.
get_current_files == {p \in Files : disk[p].kind # "absent"}

\* _get_file_info, lines 303-328.
get_file_info(p) ==
    IF disk[p].kind = "file"
    THEN [file_path |-> p,
          file_size_mb |-> disk[p].st_size,
          creation_date |-> YearOf(disk[p].st_ctime),
          modification_date |-> YearOf(disk[p].st_mtime),
          access_date |-> YearOf(disk[p].st_atime),
          status |-> "new",
          hash |-> EmptyHash]
    ELSE EmptyInfo

\* A filter that lets every file through.
is_current_year_file_always(file_info) == TRUE

\* _is_current_year_file, lines 330-341.
is_current_year_file(file_info) ==
    \/ file_info.creation_date = current_year
    \/ file_info.modification_date = current_year
    \/ file_info.access_date = current_year

\* A loop body that writes the entry of a new or changed file before it
\* applies the filter.
ClassifyOne_caching_unfiltered(p, acc) ==
    IF p \notin CachedPaths(acc.cache)
    THEN IF is_current_year_file(get_file_info(p))
         THEN [acc EXCEPT
                 !.new_files = @ \cup {p},
                 !.cache = update_file_cache(@, p, get_file_info(p))]
         ELSE [acc EXCEPT
                 !.cache = update_file_cache(@, p, get_file_info(p))]
    ELSE IF is_file_changed(acc.cache, p)
    THEN IF is_current_year_file(get_file_info(p))
         THEN [acc EXCEPT
                 !.updated_files = @ \cup {p},
                 !.cache = update_file_cache(@, p, get_file_info(p))]
         ELSE [acc EXCEPT
                 !.cache = update_file_cache(@, p, get_file_info(p))]
    ELSE IF is_current_year_file(Lookup(acc.cache, p))
         THEN [acc EXCEPT !.unchanged_files = @ \cup {p}]
         ELSE acc

\* One round of the loop of lines 241-258 for file_path p; acc holds the
\* dictionary of the cache and the three lists built so far.
ClassifyOne(p, acc) ==
    IF p \notin CachedPaths(acc.cache)
    THEN IF is_current_year_file(get_file_info(p))
         THEN [acc EXCEPT
                 !.new_files = @ \cup {p},
                 !.cache = update_file_cache(@, p, get_file_info(p))]
         ELSE acc
    ELSE IF is_file_changed(acc.cache, p)
    THEN IF is_current_year_file(get_file_info(p))
         THEN [acc EXCEPT
                 !.updated_files = @ \cup {p},
                 !.cache = update_file_cache(@, p, get_file_info(p))]
         ELSE acc
    ELSE IF is_current_year_file(Lookup(acc.cache, p))
         THEN [acc EXCEPT !.unchanged_files = @ \cup {p}]
         ELSE acc

\* The loop of lines 241-258 over the files in the order ord.
RECURSIVE Classify(_, _)
Classify(ord, acc) ==
    IF ord = <<>> THEN acc
    ELSE Classify(Tail(ord), ClassifyOne(Head(ord), acc))

\* The loop of lines 261-264 over the dictionary c, which is the
\* dictionary remove_file_cache deletes from: the first key that is not in
\* current_files is deleted, and the iterator then finds the size of the
\* dictionary changed and raises RuntimeError.
DeletedLoop(c, current_files) ==
    LET gone == {i \in DOMAIN c : c[i].file_path \notin current_files} IN
        IF gone = {}
        THEN [raised |-> FALSE, cache |-> c, deleted_files |-> {}]
        ELSE LET first == CHOOSE i \in gone : \A j \in gone : i <= j IN
                 [raised |-> TRUE,
                  cache |-> remove_file_cache(c, c[first].file_path),
                  deleted_files |-> {c[first].file_path}]

\* update_file_version, lines 154-184: nothing is written without a
\* connection.
update_file_version(l, p, file_hash, status) ==
    IF connection
    THEN [l EXCEPT ![p] = [file_hash |-> file_hash, status |-> status]]
    ELSE l

\* ---- DatabaseVersionManager: what each operation returns ----------------
\* conn tells whether db_manager.connection is usable; l is the table.
\* None of Python is written NoRow where a row is expected, {} where a
\* list of rows is expected and "None" elsewhere.

\* create_version_table, lines 107-134: no return statement.
create_version_table_returns(conn) == "None"

\* get_file_version, lines 136-152: the row of the path, None if there is
\* no such row and None if there is no connection.
get_file_version(conn, l, p) == IF conn THEN l[p] ELSE NoRow

\* update_file_version, lines 158-159 and 181: False without a connection,
\* True after the commit.
update_file_version_returns(conn) == conn

\* DatabaseVersionManager.get_files_by_status, lines 186-198: the rows with
\* the status, [] if there are none and [] if there is no connection.
rows_by_status(conn, l, status) ==
    IF conn THEN {p \in Files : l[p].status = status} ELSE {}

\* mark_files_processed, lines 200-214: returns None on every path.
mark_files_processed_returns(conn, file_paths) == "None"

\* The table after mark_files_processed, lines 204-212.
MarkedProcessed(l, file_paths) ==
    IF ~connection \/ file_paths = {}
    THEN l
    ELSE [p \in Files |->
             IF p \in file_paths /\ l[p] # NoRow
             THEN [l[p] EXCEPT !.status = "unchanged"]
             ELSE l[p]]

\* A variant that also purges the rows of the paths that are no longer in
\* the directory.
update_database_versions_purging(l, new_files, updated_files) ==
    [p \in Files |->
        IF p \notin get_current_files
        THEN NoRow
        ELSE IF p \in new_files
        THEN update_file_version(l, p, get_file_hash(p), "new")[p]
        ELSE IF p \in updated_files
        THEN update_file_version(l, p, get_file_hash(p), "updated")[p]
        ELSE l[p]]

\* _update_database_versions, lines 343-361.
update_database_versions(l, new_files, updated_files) ==
    [p \in Files |->
        IF p \in new_files
        THEN update_file_version(l, p, get_file_hash(p), "new")[p]
        ELSE IF p \in updated_files
        THEN update_file_version(l, p, get_file_hash(p), "updated")[p]
        ELSE l[p]]

\* The orders in which the loop of line 241 can go through the set s.
Orders(s) ==
    {ord \in UNION {[1..n -> s] : n \in {Cardinality(s)}} :
        \A i, j \in DOMAIN ord : i # j => ord[i] # ord[j]}

AllOrders == UNION {Orders(s) : s \in SUBSET Files}

\* scan_incremental, lines 223-289, with the files of the directory taken
\* in the order ord.  A pass that raises leaves the cache in memory as the
\* loops changed it and reaches neither the database nor save_cache.
scan_incremental(ord) ==
    /\ passes < MaxPasses
    /\ cache_meta.files_kind = "dict"
    /\ ord \in Orders(get_current_files)
    /\ LET acc == Classify(ord, [cache |-> cache, new_files |-> {},
                                 updated_files |-> {},
                                 unchanged_files |-> {}])
           del == DeletedLoop(acc.cache, get_current_files)
       IN  /\ cache' = del.cache
           /\ IF del.raised
              THEN /\ result' = [NoResult EXCEPT !.outcome = "RuntimeError"]
                   /\ lastPass' = "RuntimeError"
                   /\ UNCHANGED <<ledger, cache_file>>
              ELSE /\ ledger' = update_database_versions(
                                    ledger, acc.new_files, acc.updated_files)
                   /\ cache_file' = Pickled(del.cache, cache_meta)
                   /\ result' = [outcome |-> "returned",
                                 new_files |-> acc.new_files,
                                 updated_files |-> acc.updated_files,
                                 unchanged_files |-> acc.unchanged_files,
                                 deleted_files |-> del.deleted_files]
                   /\ lastPass' = "returned"
    /\ passes' = passes + 1
    /\ UNCHANGED <<disk, cache_meta, connection, edits>>
    /\ UNCHANGED <<orchVars, mutexVars>>

\* mark_files_processed, lines 200-214, called by a consumer of the rows.
mark_files_processed(file_paths) ==
    /\ ledger' = MarkedProcessed(ledger, file_paths)
    /\ UNCHANGED <<disk, cache, cache_meta, cache_file, connection, result,
                   passes, edits, lastPass>>
    /\ UNCHANGED <<orchVars, mutexVars>>

\* ---- the environment of the scanner -------------------------------------
\* Files are removed from the directory, one or several at once.
RemoveFiles(ps) ==
    /\ edits < MaxEdits
    /\ ps # {}
    /\ \A p \in ps : disk[p] # Absent
    /\ disk' = [p \in Files |-> IF p \in ps THEN Absent ELSE disk[p]]
    /\ edits' = edits + 1
    /\ lastPass' = "none"
    /\ UNCHANGED <<cache, cache_meta, cache_file, ledger, connection, result,
                   passes>>
    /\ UNCHANGED <<orchVars, mutexVars>>

\* A file is created, or written, touched or made unreadable.
WriteFile(p, st) ==
    /\ edits < MaxEdits
    /\ st \in FileStates \ {Absent}
    /\ disk[p] # st
    /\ disk' = [disk EXCEPT ![p] = st]
    /\ edits' = edits + 1
    /\ lastPass' = "none"
    /\ UNCHANGED <<cache, cache_meta, cache_file, ledger, connection, result,
                   passes>>
    /\ UNCHANGED <<orchVars, mutexVars>>

\* The connection to the database is lost or comes back.
ConnectionChange ==
    /\ connection' = ~connection
    /\ UNCHANGED <<disk, cache, cache_meta, cache_file, ledger, result,
                   passes, edits,
                   lastPass>>
    /\ UNCHANGED <<orchVars, mutexVars>>

\* The scanner is constructed over any directory, with or without a
\* database connection; the task manager is not used.
ScanInit ==
    /\ ManagerConstructed
    /\ hashOf = [p \in Paths |-> 0]
    /\ ScannerConstructed
    /\ disk \in [Files -> FileStates]
    /\ connection \in BOOLEAN

ScanNext ==
    \/ \E ord \in AllOrders : scan_incremental(ord)
    \/ \E ps \in SUBSET Files : RemoveFiles(ps)
    \/ \E p \in Files, st \in FileStates : WriteFile(p, st)
    \/ ConnectionChange

ScanSpec == ScanInit /\ [][ScanNext]_vars

ScanTypeOK ==
    /\ disk \in [Files -> FileStates]
    /\ cache_meta = DefaultMeta
    /\ cache_file.kind \in {"missing", "pickle"}
    /\ \A i \in DOMAIN cache :
          cache[i].file_path \in Files /\ cache[i].hash \in Hashes
    /\ \A i, j \in DOMAIN cache :
          cache[i].file_path = cache[j].file_path => i = j
    /\ \A p \in Files :
          ledger[p].status \in {"none", "new", "updated", "unchanged"}
    /\ connection \in BOOLEAN
    /\ result.outcome \in {"none", "returned", "RuntimeError"}
    /\ passes \in 0..MaxPasses
    /\ edits \in 0..MaxEdits
    /\ lastPass \in {"none", "returned", "RuntimeError"}

\* ---- views of the state the claims speak about --------------------------
\* The task objects the table holds.
Rows == {tasks[tid] : tid \in TaskIds} \ {0}

RunningFor(p) ==
    {c \in Rows : objs[c].file_path = p /\ objs[c].status = RUNNING}

ActiveFor(p) ==
    {c \in Rows : objs[c].file_path = p /\ objs[c].status \in {PENDING, RUNNING}}

\* The jobs for p that were handed to the pool and have not finished.
InFlightFor(p) == {c \in Calls : future[c] = "inflight" /\ calls[c].path = p}

\* Call c performs its entry checks in this step.
Checks(c) == calls[c].pc = "none" /\ calls'[c].pc # "none"

\* The monitor of call c leaves future.result in this step.
MonitorActs(c) == mon[c].pc = "waiting" /\ mon'[c].pc = "done"

\* The monitor of call c handles the outcome of its finished job in this step.
MonitorHandlesOutcome(c) == MonitorActs(c) /\ future[c] # "inflight"

\* The monitor of call c handles the timeout of its job in this step.
MonitorHandlesTimeout(c) == MonitorActs(c) /\ future[c] = "inflight"

\* submit_task returned a task id to the caller of call c.
Accepted(c) == calls[c].pc = "returned"

\* ---- claims -------------------------------------------------------------

\* C1: for every path p, at most one Task in the table with file_path p
\* has status running.
C1_AtMostOneRunning == \A p \in Paths : Cardinality(RunningFor(p)) <= 1

\* C2: a path is in locked_files if and only if the table holds a Task for
\* it whose status is pending or running.
C2_LockedIffActive == \A p \in Paths : (p \in locked) <=> (ActiveFor(p) # {})

\* C3: once the status of a Task is completed, failed or cancelled, no step
\* changes it.
C3_TerminalIsFinal ==
    [][\A c \in Calls :
          objs[c].status \in Terminal => objs'[c].status = objs[c].status]_vars

\* C4 (as stated): a submit whose path is in the lock set when it is checked
\* ends with ValueError and changes neither the table, the tasks, the lock
\* set nor the jobs.
C4_LockedSubmitRaisesValueError ==
    [][\A c \in Calls :
          (Checks(c) /\ calls'[c].path \in locked) =>
              /\ calls'[c].pc = "ValueError"
              /\ UNCHANGED <<tasks, objs, locked, future, mon>>]_vars

\* C4 (amended): a submit whose path is in the lock set when it is checked
\* fails at once, with ValueError, or with RuntimeError if stop() has been
\* called; it changes neither the table, the tasks, the lock set nor the
\* jobs, and a call that failed this way never owns a task, a job or a
\* monitor.
C4_LockedSubmitRejected ==
    /\ [][\A c \in Calls :
            (Checks(c) /\ calls'[c].path \in locked) =>
                /\ calls'[c].pc = (IF shutdown THEN "RuntimeError"
                                   ELSE "ValueError")
                /\ UNCHANGED <<tasks, objs, locked, future, mon>>]_vars
    /\ [](\A c \in Calls :
            calls[c].pc \in {"ValueError", "RuntimeError"} =>
                /\ objs[c] = NoTask
                /\ future[c] = "none"
                /\ mon[c].pc = "none"
                /\ c \notin Rows)

\* A submit was rejected with ValueError while its path is locked.
C4_Witness ==
    \E c \in Calls : calls[c].pc = "ValueError" /\ calls[c].path \in locked

\* C5: for every path, at most one job body is in flight in the pool.
C5_OneJobInFlight == \A p \in Paths : Cardinality(InFlightFor(p)) <= 1

\* C6: when the monitor handles the outcome of a job whose Task has been
\* cancelled, the lock set stays as it is.
C6_CancelledOutcomeKeepsLocks ==
    [][\A c \in Calls :
          (MonitorHandlesOutcome(c) /\ objs[c].status = CANCELLED) =>
              locked' = locked]_vars

\* No thread is inside submit_task, no job is in the pool and no monitor is
\* waiting: nothing is left to happen by itself.
Quiescent ==
    \A c \in Calls :
        /\ calls[c].pc \notin {"checked", "created", "started"}
        /\ future[c] # "inflight"
        /\ mon[c].pc # "waiting"

\* C7: every Task a submit accepted ends.  Once every job has finished and
\* every monitor has handled its outcome, nothing is left that could end a
\* Task, so by then every accepted Task is completed, failed or cancelled.
C7_AtRestAllEnded ==
    Quiescent =>
        \A c \in Calls : Accepted(c) => objs[c].status \in Terminal

\* The late report of a job whose monitor has already given up waiting.
LateReport(c) ==
    mon[c].pc = "done" /\ future[c] = "inflight" /\ future'[c] # "inflight"

\* C8: when the monitor of a job times out, the job's Task is failed and
\* its path is out of the lock set; the late report of that job changes
\* neither the tasks nor the lock set.
C8_TimeoutFailsAndUnlocks ==
    [][\A c \in Calls :
          /\ MonitorHandlesTimeout(c) =>
                /\ objs'[c].status = FAILED
                /\ calls[c].path \notin locked'
          /\ LateReport(c) => UNCHANGED <<tasks, objs, locked>>]_vars

\* C9: when the monitor handles a finished job, the job's Task is completed
\* with a result if the job reported success, and failed with error and
\* message otherwise; end_time is set, the path is unlocked, no other Task
\* changes and no submit call is affected.
C9_OutcomeCommitted ==
    [][\A c \in Calls :
          MonitorHandlesOutcome(c) =>
              /\ IF future[c] = "ret_ok"
                 THEN /\ objs'[c].status = COMPLETED
                      /\ objs'[c].result # "none"
                 ELSE /\ objs'[c].status = FAILED
                      /\ objs'[c].error # "none"
                      /\ objs'[c].message \in {"failed", "exception"}
              /\ objs'[c].end_time # NoTime
              /\ calls[c].path \notin locked'
              /\ \A d \in Calls \ {c} : objs'[d] = objs[d]
              /\ calls' = calls]_vars

\* C10: right after the monitor has ended the Task of a path, the path is
\* out of the lock set, so that the next submit for it passes the lock
\* check; and as long as a Task in the table is running, its path is in the
\* lock set, so that every submit for it is rejected.
C10_UnlockedAfterEndLockedWhileRunning ==
    /\ [][\A c \in Calls :
            MonitorActs(c) => ~is_file_locked(calls[c].path)']_vars
    /\ [](\A c \in Rows :
            objs[c].status = RUNNING => is_file_locked(objs[c].file_path))

\* C11 (as stated): for every Task in the table, result is present exactly
\* when the status is completed and error is present exactly when the
\* status is failed.
C11_ResultAndErrorMatchStatus ==
    \A c \in Rows :
        /\ (objs[c].result # "none") <=> (objs[c].status = COMPLETED)
        /\ (objs[c].error # "none") <=> (objs[c].status = FAILED)

\* The table holds the Task under id tid and that Task is pending or
\* running.
ExistsAndActive(tid) ==
    \E c \in Rows : objs[c].task_id = tid /\ tasks[tid] = c
                     /\ objs[c].status \in {PENDING, RUNNING}

\* C12: in every state cancel(tid) would return true exactly if the table
\* holds a Task under tid that is pending or running; a cancel in that case
\* sets the status of that Task to cancelled and takes its path out of the
\* lock set, and every other cancel leaves the table, the Tasks and the
\* lock set as they are.
C12_CancelContract ==
    /\ [](\A tid \in TaskIds : CancelEffective(tid) <=> ExistsAndActive(tid))
    /\ [][\A tid \in TaskIds :
            cancel_task(tid) =>
                IF ExistsAndActive(tid)
                THEN /\ objs'[tasks[tid]].status = CANCELLED
                     /\ objs[tasks[tid]].file_path \notin locked'
                     /\ tasks' = tasks
                ELSE UNCHANGED <<tasks, objs, locked>>]_vars

\* A cancel was effective: a Task of the table is cancelled and its path
\* is out of the lock set.
C12_Witness ==
    \E c \in Rows :
        objs[c].status = CANCELLED /\ objs[c].file_path \notin locked

\* Call c inserts its Task into the table in this step.
Inserts(c) == calls[c].pc = "checked" /\ calls'[c].pc = "created"

\* C13 (as stated): the id under which a submit inserts its Task is the id
\* of no Task then in the table, so no row is overwritten.
C13_FreshTaskId ==
    [][\A c \in Calls :
          Inserts(c) =>
              /\ tasks[objs'[c].task_id] = 0
              /\ Rows \subseteq Rows']_vars

\* The statistics as the claim defines them, from the rows of the table.
RowsWith(st) == {c \in Rows : objs[c].status = st}

\* C14: in every state, also in the middle of submits, cancels and monitor
\* commits, statistics() returns the number of Tasks in the table as total,
\* which is the sum of the five status counts, the number of Tasks of each
\* status as that status's count, and the size of the lock set as
\* locked_files.
C14_StatisticsSnapshot ==
    LET st == get_statistics IN
        /\ st.total_tasks = Cardinality(Rows)
        /\ st.total_tasks = st.pending + st.running + st.completed
                               + st.failed + st.cancelled
        /\ st.pending = Cardinality(RowsWith(PENDING))
        /\ st.running = Cardinality(RowsWith(RUNNING))
        /\ st.completed = Cardinality(RowsWith(COMPLETED))
        /\ st.failed = Cardinality(RowsWith(FAILED))
        /\ st.cancelled = Cardinality(RowsWith(CANCELLED))
        /\ st.locked_files = Cardinality(locked)

\* Statistics are taken while one submit is between its insertion and its
\* dispatch, another Task is no longer in the table, and a path is locked.
C14_Witness ==
    /\ \E c \in Calls : calls[c].pc \in {"created", "started"}
    /\ \E c \in Calls : objs[c] # NoTask /\ c \notin Rows
    /\ get_statistics.total_tasks = 1
    /\ get_statistics.locked_files >= 1

\* The Task under id tid is in a terminal state and ended more than age
\* ago.
EndedBefore(tid, age) ==
    /\ tasks[tid] # 0
    /\ objs[tasks[tid]].status \in Terminal
    /\ objs[tasks[tid]].end_time # NoTime
    /\ objs[tasks[tid]].end_time + age < now

\* C15: cleanup(age) removes from the table exactly the Tasks that are in
\* a terminal state and ended more than age ago; it removes no pending or
\* running Task, changes no Task and leaves the lock set as it is.
C15_CleanupContract ==
    [][\A age \in AgeInputs :
          cleanup_completed_tasks(age) =>
              /\ \A tid \in TaskIds :
                    tasks'[tid] = IF EndedBefore(tid, age) THEN 0
                                  ELSE tasks[tid]
              /\ \A tid \in TaskIds :
                    (tasks[tid] # 0 /\ objs[tasks[tid]].status
                                          \in {PENDING, RUNNING})
                        => tasks'[tid] = tasks[tid]
              /\ UNCHANGED <<objs, locked>>]_vars

\* A sweep has removed an ended Task and kept a Task that ended too
\* recently for some age.
C15_Witness ==
    /\ \E c \in Calls :
          objs[c].status \in Terminal /\ objs[c].end_time # NoTime
              /\ c \notin Rows
    /\ \E tid \in TaskIds :
          /\ tasks[tid] # 0
          /\ objs[tasks[tid]].status \in Terminal
          /\ objs[tasks[tid]].end_time = now

\* stop() returns in this step: either shutdown(wait=True) has returned, or
\* there was no pool to shut down.
StopReturns ==
    \/ stopPc = "draining" /\ stopPc' = "idle"
    \/ stopPc = "idle" /\ stopPc' = "idle" /\ ~shutdown /\ shutdown'

SampleStats == {st \in Stats : st.st_size = 1 /\ st.st_ctime = 1
                                 /\ st.st_atime = 1}

\* The cache entry update_file_cache stores for path p with stat st.
EntryFor(p, st) ==
    [file_path |-> p, file_size_mb |-> st.st_size,
     creation_date |-> YearOf(st.st_ctime),
     modification_date |-> YearOf(st.st_mtime),
     access_date |-> YearOf(st.st_atime), status |-> "new",
     hash |-> <<st.st_mtime, st.st_size, p>>]

SampleEntries == {EntryFor(p, st) : p \in Files, st \in SampleStats}

\* Tables of at most one entry per path.
SampleTables ==
    {<<>>} \cup {<<e>> : e \in SampleEntries}
        \cup {t \in {<<e1, e2>> : e1 \in SampleEntries,
                                    e2 \in SampleEntries} :
                 t[1].file_path # t[2].file_path}

\* The version tags a cache file can carry: the current one and an older.
Versions == {"1.0", "0.9"}

CacheFileContents ==
    {MissingFile, GarbageFile}
        \cup {[kind |-> "pickle", files_kind |-> "none", version |-> v,
               files |-> <<>>] : v \in Versions}
        \cup {[kind |-> "pickle", files_kind |-> k, version |-> v,
               files |-> t] : k \in {"list", "dict"}, v \in Versions,
                              t \in SampleTables}

\* load_cache, lines 29-44, called on the cache_data of lines 22-26: what
\* cache_data is afterwards.  The object pickle.load returns is assigned
\* at line 34 whatever it is; the print of line 35 raises if it has no
\* item 'files' or the item has no len(), and the handler of lines 38-44
\* then puts the empty cache_data back.
load_cache(file) ==
    IF file.kind = "pickle" /\ file.files_kind # "none"
    THEN [files |-> file.files,
          meta |-> [files_kind |-> file.files_kind,
                    version |-> file.version]]
    ELSE [files |-> <<>>, meta |-> DefaultMeta]

\* FileCache.__init__, lines 17-27: a process constructs its FileCache.
FileCacheConstruct ==
    /\ cache' = load_cache(cache_file).files
    /\ cache_meta' = load_cache(cache_file).meta
    /\ UNCHANGED <<disk, cache_file, ledger, connection, result, passes,
                   edits, lastPass>>
    /\ UNCHANGED <<orchVars, mutexVars>>

\* update_file_cache(p, file_info) with the file_info of the file p, lines
\* 72-82; line 82 raises TypeError if cache_data['files'] is a list.
UpdateFileCache(p) ==
    /\ disk[p].kind = "file"
    /\ cache' = IF cache_meta.files_kind = "dict"
                THEN update_file_cache(cache, p, get_file_info(p))
                ELSE cache
    /\ UNCHANGED <<disk, cache_meta, cache_file, ledger, connection, result,
                   passes, edits, lastPass>>
    /\ UNCHANGED <<orchVars, mutexVars>>

\* remove_file_cache(p), lines 84-87; a path is no element of a list of
\* entries.
RemoveFileCache(p) ==
    /\ cache' = IF cache_meta.files_kind = "dict"
                THEN remove_file_cache(cache, p)
                ELSE cache
    /\ UNCHANGED <<disk, cache_meta, cache_file, ledger, connection, result,
                   passes, edits, lastPass>>
    /\ UNCHANGED <<orchVars, mutexVars>>

\* save_cache, lines 46-54.
save_cache ==
    /\ cache_file' = Pickled(cache, cache_meta)
    /\ UNCHANGED <<disk, cache, cache_meta, ledger, connection, result,
                   passes, edits, lastPass>>
    /\ UNCHANGED <<orchVars, mutexVars>>

\* clear_cache, lines 93-98.
clear_cache ==
    /\ cache' = <<>>
    /\ cache_meta' = [cache_meta EXCEPT !.files_kind = "dict"]
    /\ cache_file' = Pickled(cache', cache_meta')
    /\ UNCHANGED <<disk, ledger, connection, result, passes, edits,
                   lastPass>>
    /\ UNCHANGED <<orchVars, mutexVars>>

\* Before FileCache is constructed: any cache file, any directory.
CacheInit ==
    /\ ManagerConstructed
    /\ hashOf = [p \in Paths |-> 0]
    /\ disk \in [Files -> SampleStats]
    /\ cache = <<>>
    /\ cache_meta = DefaultMeta
    /\ cache_file \in CacheFileContents
    /\ ledger = [p \in Files |-> NoRow]
    /\ connection = TRUE
    /\ result = NoResult
    /\ passes = 0
    /\ edits = 0
    /\ lastPass = "none"

CacheNext ==
    \/ FileCacheConstruct
    \/ \E p \in Files : UpdateFileCache(p)
    \/ \E p \in Files : RemoveFileCache(p)
    \/ save_cache
    \/ clear_cache

CacheSpec == CacheInit /\ [][CacheNext]_vars

CacheTypeOK ==
    /\ cache_meta.files_kind \in {"dict", "list"}
    /\ cache_meta.version \in Versions
    /\ cache_file.kind \in {"missing", "garbage", "pickle"}
    /\ \A i \in DOMAIN cache : cache[i].file_path \in Files

\* ==== the version table by itself (LedgerSpec) ===========================
\* update_file_version for the file p as it is on disk, with a status.
UpsertRow(p, status) ==
    /\ ledger' = update_file_version(ledger, p, get_file_hash(p), status)
    /\ UNCHANGED <<disk, cache, cache_meta, cache_file, connection, result,
                   passes, edits, lastPass>>
    /\ UNCHANGED <<orchVars, mutexVars>>

LedgerInit ==
    /\ ManagerConstructed
    /\ hashOf = [p \in Paths |-> 0]
    /\ ScannerConstructed
    /\ disk \in [Files -> SampleStats \cup {Unreadable}]
    /\ connection \in BOOLEAN

LedgerNext ==
    \/ \E p \in Files, st \in {"new", "updated"} : UpsertRow(p, st)
    \/ \E ps \in SUBSET Files : mark_files_processed(ps)
    \/ ConnectionChange

LedgerSpec == LedgerInit /\ [][LedgerNext]_vars

\* ==== the scanner with the readers of its results (QuerySpec) ============
\* The values of the parameter status of get_files_by_status: the four the
\* code knows and one it does not.
StatusArgs == {"all", "new", "updated", "unchanged", "other"}

\* IncrementalScanner.get_files_by_status, lines 363-384, on the dictionary
\* c: get_cached_files returns the dictionary of the cache itself (line
\* 91), so the assignment of line 380 writes into the entry of the cache.
files_by_status_cache(c, status) ==
    IF status \in {"new", "updated", "unchanged"}
    THEN [i \in DOMAIN c |->
             IF /\ c[i].file_path \in rows_by_status(connection, ledger,
                                                     status)
                /\ is_current_year_file(c[i])
             THEN [c[i] EXCEPT !.status = status]
             ELSE c[i]]
    ELSE c

get_files_by_status(status) ==
    /\ cache_meta.files_kind = "dict"
    /\ cache' = files_by_status_cache(cache, status)
    /\ UNCHANGED <<disk, cache_meta, cache_file, ledger, connection, result,
                   passes, edits, lastPass>>
    /\ UNCHANGED <<orchVars, mutexVars>>

\* The scanner is constructed over a directory of sample files.
QueryInit ==
    /\ ManagerConstructed
    /\ hashOf = [p \in Paths |-> 0]
    /\ ScannerConstructed
    /\ disk \in [Files -> SampleStats \cup {Absent}]
    /\ connection \in BOOLEAN

QueryNext ==
    \/ \E ord \in AllOrders : scan_incremental(ord)
    \/ \E p \in Files, st \in FileStates : WriteFile(p, st)
    \/ ConnectionChange
    \/ \E ps \in SUBSET Files : mark_files_processed(ps)
    \/ \E status \in StatusArgs : get_files_by_status(status)

QuerySpec == QueryInit /\ [][QueryNext]_vars

\* ==== self.lock of the task manager (MutexSpec) ==========================
\* The threads of the task manager at the grain of their lock operations:
\* every entry and exit of a "with self.lock" block is a step, and so is
\* every wait for a job.  What the blocks do to the table is left to Spec.

\* The instruction a thread is at, "none" if it is in no operation or has
\* run to the end of one.
Instr(t) ==
    IF thread[t].at \in DOMAIN Program(thread[t].op)
    THEN Program(thread[t].op)[thread[t].at]
    ELSE "none"

\* The thread t after the instruction it is at: a client that has run its
\* operation to the end has returned to its caller, a monitor thread ends.
Advanced(t) ==
    IF thread[t].at = Len(Program(thread[t].op)) /\ t \in ClientThreads
    THEN Idle
    ELSE [thread[t] EXCEPT !.at = @ + 1]

\* The jobs submit_task calls in progress will still hand to the pool.
Submitting == {t \in ClientThreads : thread[t].op = "submit_task"}

\* A client thread calls an operation of the manager.
Call(t, op) ==
    /\ t \in ClientThreads
    /\ thread[t] = Idle
    /\ op = "submit_task" =>
          Cardinality({c \in Calls : future[c] # "none"})
              + Cardinality(Submitting) < MaxCalls
    /\ thread' = [thread EXCEPT ![t] = [op |-> op, at |-> 1]]
    /\ UNCHANGED <<mutex, orchVars, scanVars>>

\* Entry of a "with self.lock" block: the RLock is free or already owned
\* by the thread.
Acquire(t) ==
    /\ Instr(t) = "acquire"
    /\ mutex.owner \in {NoThread, t}
    /\ mutex' = [owner |-> t, depth |-> mutex.depth + 1]
    /\ thread' = [thread EXCEPT ![t] = Advanced(t)]
    /\ UNCHANGED <<orchVars, scanVars>>

\* Exit of a "with self.lock" block.
Release(t) ==
    /\ Instr(t) = "release"
    /\ mutex.owner = t
    /\ mutex' = IF mutex.depth = 1
                THEN Unlocked
                ELSE [mutex EXCEPT !.depth = @ - 1]
    /\ thread' = [thread EXCEPT ![t] = Advanced(t)]
    /\ UNCHANGED <<orchVars, scanVars>>

\* Lines 278-291: the job goes to the pool and its monitor thread starts.
Dispatch(t) ==
    /\ Instr(t) = "dispatch"
    /\ \E c \in Calls :
         /\ future[c] = "none"
         /\ \A d \in Calls : d < c => future[d] # "none"
         /\ future' = [future EXCEPT ![c] = "inflight"]
         /\ thread' = [thread EXCEPT
                          ![t] = Advanced(t),
                          ![<<"monitor", c>>] =
                              [op |-> "monitor_task", at |-> 1]]
    /\ UNCHANGED <<now, hashOf, tasks, objs, locked, shutdown, executor,
                   stopPc, calls, mon>>
    /\ UNCHANGED <<mutex, scanVars>>

\* Line 298: future.result returns or raises once the job has ended.
Result(t) ==
    /\ Instr(t) = "result"
    /\ future[t[2]] # "inflight"
    /\ thread' = [thread EXCEPT ![t] = Advanced(t)]
    /\ UNCHANGED <<mutex, orchVars, scanVars>>

\* Line 298: future.result raises TimeoutError, the job is still running.
ResultTimeout(t) ==
    /\ Instr(t) = "result"
    /\ future[t[2]] = "inflight"
    /\ thread' = [thread EXCEPT ![t] = Advanced(t)]
    /\ UNCHANGED <<mutex, orchVars, scanVars>>

\* Lines 349-353: the progress callback.
Callback(t) ==
    /\ Instr(t) = "callback"
    /\ thread' = [thread EXCEPT ![t] = Advanced(t)]
    /\ UNCHANGED <<mutex, orchVars, scanVars>>

MutexNext ==
    \/ \E t \in Threads, op \in Ops : Call(t, op)
    \/ \E t \in Threads : Acquire(t)
    \/ \E t \in Threads : Release(t)
    \/ \E t \in Threads : Dispatch(t)
    \/ \E t \in Threads : Result(t)
    \/ \E t \in Threads : ResultTimeout(t)
    \/ \E t \in Threads : Callback(t)
    \/ \E c \in Calls, r \in {"success", "failure"} : JobFinish(c, r)

\* Every thread that can take a step of its own takes it, and a thread
\* that asks for the lock gets it if the lock is free again and again.
\* Nothing makes a client call, a job end or a wait time out.
MutexFairness ==
    \A t \in Threads :
        /\ SF_vars(Acquire(t))
        /\ WF_vars(Release(t) \/ Dispatch(t) \/ Result(t) \/ Callback(t))

MutexSpec == Init /\ [][MutexNext]_vars /\ MutexFairness

MutexTypeOK ==
    /\ mutex.owner \in Threads \cup {NoThread}
    /\ mutex.depth \in 0..2
    /\ (mutex.owner = NoThread) <=> (mutex.depth = 0)
    /\ \A t \in Threads :
         /\ thread[t].op \in Ops \cup {"none", "monitor_task"}
         /\ thread[t].at \in 0..(Len(Program(thread[t].op)) + 1)

\* ---- claims about the incremental scanner (ScanSpec) --------------------
\* A call of scan_incremental is made in this step.
Pass == passes' = passes + 1

\* K: the paths in the cache before the pass; C: the files of the directory.
K == CachedPaths(cache)
C == get_current_files

\* The paths the pass returned in new, updated or unchanged.
Present(r) == r.new_files \cup r.updated_files \cup r.unchanged_files

\* C17 (as stated): a pass made while a cached file is no longer on disk
\* returns normally with deleted = K \ C; afterwards the cache holds none of
\* these paths and each of them still has the row it had in the version
\* table.
C17_DeletedReported ==
    [][(Pass /\ K \ C # {}) =>
          /\ result'.outcome = "returned"
          /\ result'.deleted_files = K \ C
          /\ CachedPaths(cache') \cap (K \ C) = {}
          /\ \A f \in K \ C : ledger'[f] = ledger[f]]_vars

\* C18 (as stated): after every pass, each path that was in the cache
\* before it is either in one of new, updated, unchanged or in deleted, not
\* both, and no path is in two of the four lists.
C18_PartitionOfCached ==
    [][Pass =>
          LET r == result' IN
              /\ \A p \in K : (p \in Present(r)) # (p \in r.deleted_files)
              /\ r.new_files \cap r.updated_files = {}
              /\ r.new_files \cap r.unchanged_files = {}
              /\ r.updated_files \cap r.unchanged_files = {}
              /\ Present(r) \cap r.deleted_files = {}]_vars

\* C19 (as stated): a pass that follows another pass with no change of the
\* directory in between returns every file as unchanged and nothing as new,
\* updated or deleted, and changes neither the entries of the cache nor the
\* rows of the version table.
C19_SecondPassIdle ==
    [][(Pass /\ lastPass # "none") =>
          /\ result'.outcome = "returned"
          /\ result'.unchanged_files = C
          /\ result'.new_files = {}
          /\ result'.updated_files = {}
          /\ result'.deleted_files = {}
          /\ cache' = cache
          /\ ledger' = ledger]_vars

\* C20 (as stated): a pass made with an empty cache returns every file of
\* the directory as new and nothing else; afterwards the cache has one
\* entry per file and the version table one row with status new per file.
C20_FreshScanTakesEveryFile ==
    [][(Pass /\ cache = <<>>) =>
          /\ result'.outcome = "returned"
          /\ result'.new_files = C
          /\ result'.updated_files = {}
          /\ result'.unchanged_files = {}
          /\ result'.deleted_files = {}
          /\ CachedPaths(cache') = C /\ Len(cache') = Cardinality(C)
          /\ \A p \in C : ledger'[p].status = "new"]_vars

\* os.stat of p succeeds and one of the three time stamps of p falls in the
\* current year.
InWindow(p) ==
    /\ disk[p].kind = "file"
    /\ \E t \in {disk[p].st_ctime, disk[p].st_mtime, disk[p].st_atime} :
          YearOf(t) = current_year

\* C20 (amended): a pass made with an empty cache returns as new exactly
\* the files of the directory whose stat succeeds and that have a time
\* stamp in the current year, and nothing else; afterwards the cache has
\* one entry for each of them, carrying the file's fingerprint, and no
\* other; with a usable connection the version table has for each of them
\* a row with that fingerprint and status new and is otherwise as before,
\* and without one it is as before.
C20_FreshScanTakesFilesInWindow ==
    [][(Pass /\ cache = <<>>) =>
          LET W == {p \in C : InWindow(p)} IN
              /\ result'.outcome = "returned"
              /\ result'.new_files = W
              /\ result'.updated_files = {}
              /\ result'.unchanged_files = {}
              /\ result'.deleted_files = {}
              /\ CachedPaths(cache') = W /\ Len(cache') = Cardinality(W)
              /\ \A i \in DOMAIN cache' :
                    cache'[i].hash = <<disk[cache'[i].file_path].st_mtime,
                                       disk[cache'[i].file_path].st_size,
                                       cache'[i].file_path>>
              /\ \A p \in Files :
                    ledger'[p] =
                        IF connection /\ p \in W
                        THEN [file_hash |-> <<disk[p].st_mtime,
                                              disk[p].st_size, p>>,
                              status |-> "new"]
                        ELSE ledger[p]]_vars

\* The first pass, made with an empty cache over a directory with a file in
\* the window and a file outside it, has returned, and the version table
\* has a row with status new.
C20_Witness ==
    /\ passes = 1
    /\ result.outcome = "returned"
    /\ result.new_files # {}
    /\ result.new_files # C
    /\ \E p \in Files : ledger[p].status = "new"

\* The fingerprint of the file p as it is on disk, for a file whose stat
\* succeeds.
Fingerprint(p) == <<disk[p].st_mtime, disk[p].st_size, p>>

\* C21 (as stated): a pass classifies a cached file whose size or
\* modification time differs from the cached fingerprint as updated, stores
\* the new fingerprint in its cache entry and writes its row of the version
\* table with that fingerprint and status updated; it classifies a cached
\* file whose size and modification time are as cached as unchanged.
C21_ChangedFileUpdated ==
    [][Pass =>
          \A f \in K :
              disk[f].kind = "file" =>
                  IF Fingerprint(f) # CachedHash(cache, f)
                  THEN /\ f \in result'.updated_files
                       /\ CachedHash(cache', f) = Fingerprint(f)
                       /\ ledger'[f] = [file_hash |-> Fingerprint(f),
                                        status |-> "updated"]
                  ELSE f \in result'.unchanged_files]_vars

\* C22 (as stated): is_changed(p) is true when the cache has no entry for
\* p, when stat of p fails and when the fingerprint of p on disk differs
\* from the cached one; it is false only when the cache has an entry for p
\* whose fingerprint is the fingerprint of p on disk.
C22_IsChangedContract ==
    \A p \in Files :
        /\ p \notin K => is_file_changed(cache, p)
        /\ disk[p].kind # "file" => is_file_changed(cache, p)
        /\ (p \in K /\ disk[p].kind = "file"
              /\ Fingerprint(p) # Lookup(cache, p).hash)
               => is_file_changed(cache, p)
        /\ ~is_file_changed(cache, p) =>
               /\ p \in K
               /\ disk[p].kind = "file"
               /\ Fingerprint(p) = Lookup(cache, p).hash

\* The cache entry of p is after the step what it was before.
EntryKept(p) ==
    /\ (p \in K) <=> (p \in CachedPaths(cache'))
    /\ p \in K => Lookup(cache', p) = Lookup(cache, p)

\* C23 (as stated): a file whose extension is not in the allow-list is
\* returned by no pass as new, updated or unchanged, is not written to the
\* cache and is not written to the version table.
C23_OnlyAllowedExtensions ==
    [][Pass =>
          \A p \in C :
              Extension(p) \notin SUPPORTED_EXTENSIONS =>
                  /\ p \notin Present(result')
                  /\ EntryKept(p)
                  /\ ledger'[p] = ledger[p]]_vars

\* C24 (as stated): a pass returns a file of the directory as new, updated
\* or unchanged if and only if one of its creation, modification and
\* access times falls in the current year.
C24_IncludedIffInWindow ==
    [][Pass =>
          \A p \in C :
              disk[p].kind = "file" =>
                  ((p \in Present(result')) <=> InWindow(p))]_vars

\* The class the loop of lines 241-258 gives p when p is the only file it
\* looks at.
ClassAlone(p) ==
    LET acc == ClassifyOne(p, [cache |-> cache, new_files |-> {},
                               updated_files |-> {},
                               unchanged_files |-> {}])
    IN  IF p \in acc.new_files THEN "new"
        ELSE IF p \in acc.updated_files THEN "updated"
        ELSE IF p \in acc.unchanged_files THEN "unchanged"
        ELSE "skipped"

\* The class the pass gave p.
ClassIn(r, p) ==
    IF p \in r.new_files THEN "new"
    ELSE IF p \in r.updated_files THEN "updated"
    ELSE IF p \in r.unchanged_files THEN "unchanged"
    ELSE "skipped"

\* C25 (as stated): a pass over a directory with a file whose stat fails
\* returns normally; the failing file is in none of new, updated and
\* unchanged and its cache entry is neither created nor overwritten; every
\* other file is classified as it would be by itself.
C25_StatFailureSkipsOneFile ==
    [][(Pass /\ \E p \in C : disk[p].kind = "unreadable") =>
          /\ result'.outcome = "returned"
          /\ \A p \in C :
                IF disk[p].kind = "unreadable"
                THEN p \notin Present(result') /\ EntryKept(p)
                ELSE ClassIn(result', p) = ClassAlone(p)]_vars

\* The four lists of a pass, as they follow from the cache and the
\* directory alone.
ExpectedNew == {p \in C \ K : InWindow(p)}
ExpectedUpdated ==
    {p \in C \cap K : InWindow(p) /\ Fingerprint(p) # Lookup(cache, p).hash}
ExpectedUnchanged ==
    {p \in C \cap K :
        /\ disk[p].kind = "file"
        /\ Fingerprint(p) = Lookup(cache, p).hash
        /\ is_current_year_file(Lookup(cache, p))}
ExpectedDeleted == K \ C

\* C26 (as stated): a pass made without a usable connection returns, with
\* the four lists that follow from the cache and the directory alone,
\* updates the cache for the new and updated files, drops the deleted ones
\* and saves the cache.
C26_PassWithoutLedger ==
    [][(Pass /\ ~connection) =>
          /\ result'.outcome = "returned"
          /\ result'.new_files = ExpectedNew
          /\ result'.updated_files = ExpectedUpdated
          /\ result'.unchanged_files = ExpectedUnchanged
          /\ result'.deleted_files = ExpectedDeleted
          /\ \A p \in ExpectedNew \cup ExpectedUpdated :
                CachedHash(cache', p) = Fingerprint(p)
          /\ CachedPaths(cache') = (K \cup ExpectedNew) \ ExpectedDeleted
          /\ cache_file' = Pickled(cache', cache_meta')]_vars


\* ---- claims about the version table (LedgerSpec) ------------------------
\* C27 (as stated): while the store is unavailable no operation of the
\* version table writes a row, and every operation returns something that
\* the same operation would not return when it succeeds on the same table,
\* so that the caller can tell the one from the other.
C27_UnavailableStoreReported ==
    ~connection =>
        /\ \A p \in Files, st \in {"new", "updated"} :
              update_file_version(ledger, p, get_file_hash(p), st) = ledger
        /\ update_file_version_returns(FALSE)
              # update_file_version_returns(TRUE)
        /\ create_version_table_returns(FALSE)
              # create_version_table_returns(TRUE)
        /\ \A p \in Files :
              get_file_version(FALSE, ledger, p)
                  # get_file_version(TRUE, ledger, p)
        /\ \A st \in {"new", "updated", "unchanged"} :
              rows_by_status(FALSE, ledger, st)
                  # rows_by_status(TRUE, ledger, st)
        /\ \A ps \in SUBSET Files :
              mark_files_processed_returns(FALSE, ps)
                  # mark_files_processed_returns(TRUE, ps)

\* ---- claims about the file cache (CacheSpec) ----------------------------
\* C28 (as stated): when the cache file is missing, is no pickle, or holds
\* a pickle that is not a table of entries, the constructed cache has an
\* empty table.
C28_UnusableFileLoadsEmpty ==
    [][(FileCacheConstruct
          /\ (cache_file.kind # "pickle" \/ cache_file.files_kind # "dict"))
        => cache' = <<>> /\ cache_meta'.files_kind = "dict"]_vars

\* C29 (as stated): when the cache file carries another version tag than
\* the current one, the constructed cache has an empty table.
C29_OtherVersionLoadsEmpty ==
    [][(FileCacheConstruct /\ cache_file.kind = "pickle"
          /\ cache_file.version # DefaultMeta.version)
        => cache' = <<>>]_vars

\* C30 (as stated): every pass ends with the cache file holding the table
\* as the pass left it, written after the updates of table and ledger.
C30_PassSavesOnce ==
    [][Pass => cache_file' = Pickled(cache', cache_meta')]_vars

\* The paths that have a row in the version table.
LedgerPaths(l) == {p \in Files : l[p] # NoRow}

\* C31: no pass deletes a row of the version table: the set of paths that
\* have a row never shrinks in a pass, whether the pass returns or raises
\* and whether or not cached files were removed from the directory.
C31_LedgerNeverShrinks ==
    [][Pass => LedgerPaths(ledger) \subseteq LedgerPaths(ledger')]_vars

\* A pass has met a file that was removed from the directory and has
\* dropped it from the cache, and the file still has its row.
C31_Witness ==
    /\ lastPass = "RuntimeError"
    /\ \E p \in LedgerPaths(ledger) :
          disk[p] = Absent /\ p \notin CachedPaths(cache)

\* ---- claims about self.lock (MutexSpec) ---------------------------------
\* C32: no thread owns the lock while it waits for the outcome of a job,
\* the owner of the lock can always take its next step, and every
\* operation a client has called returns, also while jobs stay in flight
\* for ever.
C32_NoWaitUnderMutex ==
    /\ [](\A t \in Threads :
            mutex.owner = t =>
                Instr(t) \in {"acquire", "release"}
                    /\ ENABLED (Acquire(t) \/ Release(t)))
    /\ \A t \in ClientThreads : (thread[t] # Idle) ~> (thread[t] = Idle)

\* A client is inside a block under the lock while a job is in flight and
\* the monitor of the job waits for its outcome.
C32_Witness ==
    \E t \in ClientThreads, c \in Calls :
        /\ mutex.owner = t
        /\ future[c] = "inflight"
        /\ Instr(<<"monitor", c>>) = "result"

\* ---- claims about the readers of the cache (QuerySpec) ------------------
\* C33 (as stated): get_files_by_status leaves every entry of the cache as
\* it is, its status field included.
C33_QueriesLeaveCache ==
    [][(\E status \in StatusArgs : get_files_by_status(status))
        => cache' = cache]_vars

\* ---- more claims about the incremental scanner (ScanSpec) ---------------
\* C34 (as stated): after every pass, every cached path has a row in the
\* version table whose hash is the hash of the cache entry.
C34_NoCacheLedgerDrift ==
    [][Pass => \A p \in CachedPaths(cache') :
                  /\ p \in LedgerPaths(ledger')
                  /\ ledger'[p].file_hash = Lookup(cache', p).hash]_vars

\* C35: a pass writes neither a cache entry nor a row for a file of the
\* directory that has no time stamp in the current year (or whose stat
\* fails): if it was not cached it is not cached afterwards, if it was
\* cached its entry is the one it had, its row is as it was, and if it was
\* new or changed for this pass it is new or changed for the next one.
C35_FilteredFileNotWritten ==
    [][Pass => \A p \in C :
          ~InWindow(p) =>
              /\ EntryKept(p)
              /\ ledger'[p] = ledger[p]
              /\ (p \notin K \/ is_file_changed(cache, p))
                    => (p \notin CachedPaths(cache')
                           \/ is_file_changed(cache', p))]_vars

\* After a pass, one file without a time stamp in the current year is
\* still not cached and another one still has the entry of its earlier
\* content.
C35_Witness ==
    /\ lastPass # "none"
    /\ \E p \in Files \ CachedPaths(cache) :
          disk[p].kind = "file" /\ ~InWindow(p)
    /\ \E p \in CachedPaths(cache) :
          disk[p].kind = "file" /\ ~InWindow(p) /\ is_file_changed(cache, p)

\* ---- more claims about the task manager (Spec) ---------------------------
\* C36 (as stated): every task of the table that is completed, failed or
\* cancelled has its end_time set.
C36_TerminalHasEndTime ==
    \A c \in Rows : objs[c].status \in Terminal => objs[c].end_time # NoTime

\* A submit_task call raises out of _start_task in this step.
DispatchFails(c) == calls[c].pc = "started" /\ calls'[c].pc = "raised"

\* C37 (as stated): when executor.submit fails inside submit_task, the
\* call raises and leaves its task neither pending nor running and its
\* file not locked.
C37_FailedDispatchLeavesNothing ==
    [][\A c \in Calls :
          DispatchFails(c) =>
              /\ objs'[c].status \notin {PENDING, RUNNING}
              /\ objs[c].file_path \notin locked']_vars

\* C38: once stop has been called the flag _shutdown stays set, also when
\* start is called again, and every submit_task call that begins from
\* then on raises RuntimeError at its first check: it creates no task,
\* locks no file and does not touch the pool, and it does nothing later.
C38_SubmitAfterStopRejected ==
    /\ [][shutdown => shutdown']_vars
    /\ [][\A c \in Calls :
            (Checks(c) /\ shutdown) =>
                /\ calls'[c].pc = "RuntimeError"
                /\ UNCHANGED <<tasks, objs, locked, executor, future, mon>>
         ]_vars
    /\ [](\A c \in Calls :
            calls[c].pc = "RuntimeError" =>
                objs[c] = NoTask /\ future[c] = "none"
                    /\ mon[c].pc = "none")

\* stop has been called and has returned, a later start has made a new
\* pool, and a submit_task call has been rejected.
C38_Witness ==
    /\ shutdown
    /\ stopPc = "idle"
    /\ executor = "up"
    /\ \E c \in Calls : calls[c].pc = "RuntimeError"

\* C39 (as stated): when the monitor of an accepted task goes on to the
\* progress callback (lines 349-353), it has committed a terminal status
\* for the task and the file of the task is unlocked.
C39_CallbackAfterCommit ==
    [][\A c \in Calls :
          MonitorActs(c) =>
              /\ objs'[c].status \in Terminal
              /\ objs'[c].file_path \notin locked']_vars

====
